---- MODULE Spec2Model ----
(***************************************************************************)
(* A model of src/utils/dataTransforms.ts: the statistical helpers of the  *)
(* charting library, as pure functions over tabular data, applied by the   *)
(* actions of a small state machine (a caller holding a dataset and        *)
(* calling one function after the other); and of the components Tooltip    *)
(* and withTooltip, as the state they keep between renders.                *)
(*                                                                         *)
(* JavaScript values are records [t, n, d, s]: t is the type tag, n/d an   *)
(* exact rational in lowest terms (d > 0) for numbers, s the text of a     *)
(* string.  Arithmetic is exact, except in the section on the correlation  *)
(* in floating point, which rounds every operation as IEEE 754 does.       *)
(* A row (record of the dataset) is a function from the names of the       *)
(* properties it has to their values; reading a property it does not have  *)
(* yields undefined, as in JavaScript.                                     *)
(***************************************************************************)
EXTENDS Integers, Sequences, FiniteSets, TLC

\* the caller of the data transforms
VARIABLES data, call, ret, outcome

\* the components: the state of withTooltip as of its last render, the values
\* handed to setTooltip since, the last hover or leave handled, whether a
\* handler ran on a state older than the one pending, the position state of
\* Tooltip, its size, offset and window, and the state of its effect
VARIABLES tooltip, pending, lastPoint, overlapped, position, layout, effect

dataVars == <<data, call, ret, outcome>>

uiVars == <<tooltip, pending, lastPoint, overlapped, position, layout, effect>>

vars == <<data, call, ret, outcome,
          tooltip, pending, lastPoint, overlapped, position, layout, effect>>

(* ------------------------------ bounds -------------------------------- *)

\* longest dataset the caller holds
MaxLen == 3

\* largest explicit bin count handed to createBins
MaxBins == 3

(* --------------------------- JavaScript values ------------------------ *)

Abs(x) == IF x < 0 THEN -x ELSE x

RECURSIVE GCD(_, _)
GCD(a, b) == IF b = 0 THEN a ELSE GCD(b, a % b)

\* the number n/d (d > 0), in lowest terms
Rat(n, d) ==
  LET g == GCD(Abs(n), d)
  IN  [t |-> "num", n |-> n \div g, d |-> d \div g, s |-> ""]

Num(n) == [t |-> "num", n |-> n, d |-> 1, s |-> ""]

Str(x) == [t |-> "str", n |-> 0, d |-> 1, s |-> x]

Null == [t |-> "null", n |-> 0, d |-> 1, s |-> ""]

Undef == [t |-> "undefined", n |-> 0, d |-> 1, s |-> ""]

NaN == [t |-> "nan", n |-> 0, d |-> 1, s |-> ""]

\* false
False == [t |-> "bool", n |-> 0, d |-> 1, s |-> ""]

\* +Infinity (n = 1) and -Infinity (n = -1)
Inf(sign) == [t |-> "inf", n |-> sign, d |-> 1, s |-> ""]

\* sign * sqrt(n/d) for a positive n/d that is not the square of a rational
Surd(sign, n, d) == [t |-> "surd", n |-> sign * n, d |-> d, s |-> ""]

IsNum(v) == v.t = "num"

\* row[f]: undefined when the row has no such property
Get(row, f) == IF f \in DOMAIN row THEN row[f] ELSE Undef

\* row[variable] = v
SetProp(row, variable, v) ==
  [k \in DOMAIN row \cup {variable} |-> IF k = variable THEN v ELSE row[k]]

\* a === b (NaN is not equal to itself)
StrictEq(a, b) == a # NaN /\ a = b

\* +v (ToNumber) on the values of the model; the only strings with a numeric
\* value are the empty string (0); the others are names, which give NaN
ToNumber(v) ==
  CASE v.t = "num" -> v
    [] v.t = "inf" -> v
    [] v.t = "null" -> Num(0)
    [] v.t = "bool" -> Num(v.n)
    [] v.t = "str" -> IF v.s = "" THEN Num(0) ELSE NaN
    [] OTHER -> NaN

\* v || 0
OrZero(v) ==
  IF v = Undef \/ v = Null \/ v = NaN \/ v = Str("") \/ v = Num(0) \/ v = False
  THEN Num(0) ELSE v

Add(a, b) == Rat(a.n * b.d + b.n * a.d, a.d * b.d)

Sub(a, b) == Rat(a.n * b.d - b.n * a.d, a.d * b.d)

Mul(a, b) == Rat(a.n * b.n, a.d * b.d)

\* a / b for numbers, b # 0
Quot(a, b) == IF b.n < 0 THEN Rat(-(a.n * b.d), a.d * (-b.n)) ELSE Rat(a.n * b.d, a.d * b.n)

Less(a, b) == a.n * b.d < b.n * a.d

Leq(a, b) == a.n * b.d <= b.n * a.d

\* Math.floor and Math.ceil of a number, as integers
Floor(v) == v.n \div v.d

Ceil(v) == -((-v.n) \div v.d)

\* a - b, a * b, a / b of JavaScript on numbers and NaN
JSSub(a, b) == IF IsNum(a) /\ IsNum(b) THEN Sub(a, b) ELSE NaN

JSMul(a, b) == IF IsNum(a) /\ IsNum(b) THEN Mul(a, b) ELSE NaN

JSAdd(a, b) == IF IsNum(a) /\ IsNum(b) THEN Add(a, b) ELSE NaN

JSDiv(a, b) ==
  IF ~(IsNum(a) /\ IsNum(b)) THEN NaN
  ELSE IF b.n # 0 THEN Quot(a, b)
  ELSE IF a.n = 0 THEN NaN
  ELSE Inf(IF a.n > 0 THEN 1 ELSE -1)

\* the largest k with k * k <= n
RECURSIVE ISqrtFrom(_, _)
ISqrtFrom(n, k) == IF (k + 1) * (k + 1) > n THEN k ELSE ISqrtFrom(n, k + 1)

ISqrt(n) == ISqrtFrom(n, 0)

IsSquare(n) == ISqrt(n) * ISqrt(n) = n

\* Math.sqrt of a number >= 0
JSSqrt(v) ==
  IF ~IsNum(v) \/ v.n < 0 THEN NaN
  ELSE IF IsSquare(v.n) /\ IsSquare(v.d) THEN Rat(ISqrt(v.n), ISqrt(v.d))
  ELSE Surd(1, v.n, v.d)

(* ------------------------------ sequences ----------------------------- *)

RECURSIVE SelectIdx(_, _, _)
\* the indices i of 1..n, ascending, with keep[i]
SelectIdx(keep, n, i) ==
  IF i > n THEN <<>>
  ELSE IF keep[i] THEN <<i>> \o SelectIdx(keep, n, i + 1)
  ELSE SelectIdx(keep, n, i + 1)

RECURSIVE SumSeq(_)
SumSeq(s) == IF s = <<>> THEN 0 ELSE s[1] + SumSeq(Tail(s))

RECURSIVE SumNum(_)
\* sum of a sequence of numbers
SumNum(s) == IF s = <<>> THEN Num(0) ELSE Add(s[1], SumNum(Tail(s)))

\* column f of the dataset: data.map(d => d[f])
Column(rows, f) == [i \in 1..Len(rows) |-> Get(rows[i], f)]

Front(s) == SubSeq(s, 1, Len(s) - 1)

\* the elements of s at the indices idx, in that order
Pick(s, idx) == [k \in 1..Len(idx) |-> s[idx[k]]]

\* the elements s[i] with keep[i], in order (array.filter)
Filter(s, keep) == Pick(s, SelectIdx(keep, Len(s), 1))

\* ToNumber of every element
ToNumbers(s) == [k \in 1..Len(s) |-> ToNumber(s[k])]

(* ------------------------- d3-array, as called ------------------------ *)

\* d3's numbers(values): the values that are neither null nor undefined and
\* whose ToNumber is not NaN, coerced to numbers, in order
D3Numbers(vals) ==
  ToNumbers(Filter(vals, [i \in 1..Len(vals) |->
                            vals[i] # Null /\ vals[i] # Undef /\ IsNum(ToNumber(vals[i]))]))

\* d3.mean: undefined when there is no number
MeanOf(nums) == IF Len(nums) = 0 THEN Undef ELSE Quot(SumNum(nums), Num(Len(nums)))

D3Mean(vals) == MeanOf(D3Numbers(vals))

RECURSIVE InsertAsc(_, _)
InsertAsc(s, x) ==
  IF s = <<>> THEN <<x>>
  ELSE IF Leq(s[1], x) THEN <<s[1]>> \o InsertAsc(Tail(s), x)
  ELSE <<x>> \o s

RECURSIVE SortAsc(_)
\* a sequence of numbers in ascending order
SortAsc(s) == IF s = <<>> THEN <<>> ELSE InsertAsc(SortAsc(Front(s)), s[Len(s)])

\* d3.quantile(values, p) for a number p: linear interpolation between the
\* order statistics around (n - 1) * p
\* value0 + (value1 - value0) * (i - i0) at the position i = (n - 1) * p
Interpolate(sorted, i) ==
  Add(sorted[Floor(i) + 1],
      Mul(Sub(sorted[Floor(i) + 2], sorted[Floor(i) + 1]), Sub(i, Num(Floor(i)))))

QuantileSorted(sorted, p) ==
  IF Len(sorted) = 0 THEN Undef
  ELSE IF Leq(p, Num(0)) \/ Len(sorted) < 2 THEN sorted[1]
  ELSE IF Leq(Num(1), p) THEN sorted[Len(sorted)]
  ELSE Interpolate(sorted, Mul(Num(Len(sorted) - 1), p))

D3Quantile(vals, p) == QuantileSorted(SortAsc(D3Numbers(vals)), p)

\* d3.median
D3Median(vals) == D3Quantile(vals, Rat(1, 2))

\* d3.variance: undefined for fewer than two numbers
\* the squares of the differences to the mean
SquaredDiffs(nums, mean) ==
  [k \in 1..Len(nums) |-> Mul(Sub(nums[k], mean), Sub(nums[k], mean))]

VarianceOf(nums) ==
  IF Len(nums) < 2 THEN Undef
  ELSE Quot(SumNum(SquaredDiffs(nums, MeanOf(nums))), Num(Len(nums) - 1))

D3Variance(vals) == VarianceOf(D3Numbers(vals))

\* d3.deviation
SqrtOrUndef(v) == IF v = Undef THEN Undef ELSE JSSqrt(v)

D3Deviation(vals) == SqrtOrUndef(D3Variance(vals))

\* the values d3.min, d3.max and d3.extent look at: not null, not undefined and
\* comparable with themselves (value >= value), uncoerced, in order
D3Comparable(vals) ==
  Filter(vals, [i \in 1..Len(vals) |-> vals[i] # Null /\ vals[i] # Undef /\ vals[i] # NaN])

\* a < b of JavaScript between the values of a column (numbers and strings, the
\* strings being the empty string or names that are not numeric)
JSLess(a, b) ==
  IF a.t = "str" /\ b.t = "str" THEN a.s = "" /\ b.s # ""
  ELSE IsNum(ToNumber(a)) /\ IsNum(ToNumber(b)) /\ Less(ToNumber(a), ToNumber(b))

RECURSIVE FoldMin(_, _)
FoldMin(s, m) ==
  IF s = <<>> THEN m
  ELSE FoldMin(Tail(s), IF JSLess(s[1], m) THEN s[1] ELSE m)

RECURSIVE FoldMax(_, _)
FoldMax(s, m) ==
  IF s = <<>> THEN m
  ELSE FoldMax(Tail(s), IF JSLess(m, s[1]) THEN s[1] ELSE m)

\* d3.min and d3.max: the element itself, undefined when there is none
MinOf(c) == IF Len(c) = 0 THEN Undef ELSE FoldMin(Tail(c), c[1])

MaxOf(c) == IF Len(c) = 0 THEN Undef ELSE FoldMax(Tail(c), c[1])

D3Min(vals) == MinOf(D3Comparable(vals))

D3Max(vals) == MaxOf(D3Comparable(vals))

\* d3.extent
D3Extent(vals) == <<D3Min(vals), D3Max(vals)>>

\* as AppendNew, with a new x put first
PrependNew(r, x) == IF \E i \in 1..Len(r) : r[i] = x THEN r ELSE <<x>> \o r

\* r, with x appended unless r holds it
AppendNew(r, x) == IF \E i \in 1..Len(r) : r[i] = x THEN r ELSE Append(r, x)

RECURSIVE DistinctKeys(_)
\* the distinct values of a sequence in the order they are first seen (the
\* insertion order of the Map d3.group and d3.rollup build; keys are compared
\* by SameValueZero, for which NaN is equal to itself)
DistinctKeys(s) ==
  IF Len(s) = 0 THEN <<>> ELSE AppendNew(DistinctKeys(Front(s)), s[Len(s)])

\* d3.group(rows, d => d[f]): the (key, rows of that key) pairs
GroupsOf(rows, f, keys) ==
  [k \in 1..Len(keys) |->
    [key |-> keys[k],
     values |-> Filter(rows, [i \in 1..Len(rows) |-> Get(rows[i], f) = keys[k]])]]

D3Group(rows, f) == GroupsOf(rows, f, DistinctKeys(Column(rows, f)))

\* d3.rollup(rows, v => v.length, d => d[f]): the (key, count) pairs
CountsOf(g) == [k \in 1..Len(g) |-> [key |-> g[k].key, count |-> Len(g[k].values)]]

D3Rollup(rows, f) == CountsOf(D3Group(rows, f))

RECURSIVE InsertByCount(_, _)
InsertByCount(s, x) ==
  IF s = <<>> THEN <<x>>
  ELSE IF s[1].count >= x.count THEN <<s[1]>> \o InsertByCount(Tail(s), x)
  ELSE <<x>> \o s

RECURSIVE InsertByCountUnstable(_, _)
InsertByCountUnstable(s, x) ==
  IF s = <<>> THEN <<x>>
  ELSE IF s[1].count > x.count THEN <<s[1]>> \o InsertByCountUnstable(Tail(s), x)
  ELSE <<x>> \o s

RECURSIVE SortByCountDescUnstable(_)
SortByCountDescUnstable(s) ==
  IF s = <<>> THEN <<>>
  ELSE InsertByCountUnstable(SortByCountDescUnstable(Front(s)), s[Len(s)])

RECURSIVE SortByCountDesc(_)
\* array.sort((a, b) => b.count - a.count): a stable sort (ECMAScript 2019)
SortByCountDesc(s) ==
  IF s = <<>> THEN <<>> ELSE InsertByCount(SortByCountDesc(Front(s)), s[Len(s)])

(* --------------------------- basic statistics ------------------------- *)

calculateMean(rows, variable) == OrZero(D3Mean(Column(rows, variable)))

calculateMedian(rows, variable) == OrZero(D3Median(Column(rows, variable)))

\* as calculateStandardDeviation, without the fallback || 0
calculateStandardDeviationUnguarded(rows, variable) == D3Deviation(Column(rows, variable))

calculateStandardDeviation(rows, variable) == OrZero(D3Deviation(Column(rows, variable)))

\* the default of the parameter q: [0.25, 0.5, 0.75]
DefaultQuantiles == <<Rat(1, 4), Rat(1, 2), Rat(3, 4)>>

\* q.map(quantile => d3.quantile(data.map(d => d[variable]), quantile) || 0)
QuantilesOf(vals, q) == [k \in 1..Len(q) |-> OrZero(D3Quantile(vals, q[k]))]

calculateQuantiles(rows, variable, q) == QuantilesOf(Column(rows, variable), q)

(* -------------------------- categorical statistics -------------------- *)

\* (count / total) * 100
Percentage(count, total) == JSMul(JSDiv(Num(count), Num(total)), Num(100))

\* as FrequencyEntries, with the percentages taken of the number of entries
FrequencyEntriesOfEntries(counts, total) ==
  [k \in 1..Len(counts) |->
    [value |-> counts[k].key,
     count |-> counts[k].count,
     percentage |-> Percentage(counts[k].count, Len(counts))]]

FrequencyEntries(counts, total) ==
  [k \in 1..Len(counts) |->
    [value |-> counts[k].key,
     count |-> counts[k].count,
     percentage |-> Percentage(counts[k].count, total)]]

calculateFrequencies(rows, variable) ==
  SortByCountDesc(FrequencyEntries(D3Rollup(rows, variable), Len(rows)))

(* ------------------------------ d3.bin -------------------------------- *)

\* a <= b of JavaScript: by text between two strings, by number otherwise, false
\* when either side is NaN or undefined
JSLeq(a, b) ==
  IF a.t = "str" /\ b.t = "str" THEN a.s = "" \/ a.s = b.s
  ELSE IsNum(ToNumber(a)) /\ IsNum(ToNumber(b)) /\ Leq(ToNumber(a), ToNumber(b))

RECURSIVE IntPow(_, _)
IntPow(b, e) == IF e = 0 THEN 1 ELSE b * IntPow(b, e - 1)

\* 10^p as a number
Pow10(p) == IF p >= 0 THEN Num(IntPow(10, p)) ELSE Rat(1, IntPow(10, -p))

RECURSIVE Log10FloorFrom(_, _)
Log10FloorFrom(v, p) ==
  IF Less(v, Pow10(p)) THEN Log10FloorFrom(v, p - 1)
  ELSE IF Leq(Pow10(p + 1), v) THEN Log10FloorFrom(v, p + 1)
  ELSE p

\* Math.floor(Math.log10(v)) for a number v > 0
Log10Floor(v) == Log10FloorFrom(v, 0)

\* 1, 2, 5 or 10, by the thresholds sqrt(50), sqrt(10) and sqrt(2) on the error
TickFactor(error) ==
  IF Leq(Num(50), Mul(error, error)) THEN 10
  ELSE IF Leq(Num(10), Mul(error, error)) THEN 5
  ELSE IF Leq(Num(2), Mul(error, error)) THEN 2
  ELSE 1

\* 10^power * factor for power = floor(log10(step)), error = step / 10^power
StepOf(step, power) == Mul(Pow10(power), Num(TickFactor(Quot(step, Pow10(power)))))

RawStep(step) == StepOf(step, Log10Floor(step))

\* the tick step d3's tickSpec chooses for step = (stop - start) / count
TickStep(start, stop, count) == RawStep(Quot(Sub(stop, start), count))

\* <<i1, i2, tick step>>: the multiples i1..i2 of the tick step lie in
\* [start, stop]
TickRange(start, stop, inc) == <<Ceil(Quot(start, inc)), Floor(Quot(stop, inc)), inc>>

RECURSIVE TickSpec(_, _, _)

\* with no tick and a count in [0.5, 2) the count is doubled
TickRetry(start, stop, count, spec) ==
  IF spec[2] < spec[1] /\ Leq(Rat(1, 2), count) /\ Less(count, Num(2))
    THEN TickSpec(start, stop, Mul(count, Num(2)))
    ELSE spec

TickSpec(start, stop, count) ==
  TickRetry(start, stop, count, TickRange(start, stop, TickStep(start, stop, count)))

TicksOf(spec) ==
  IF spec[2] < spec[1] THEN <<>>
  ELSE [i \in 1..(spec[2] - spec[1] + 1) |-> Mul(Num(spec[1] + i - 1), spec[3])]

\* d3.ticks on numbers, start <= stop
TicksBetween(start, stop, count) ==
  IF count <= 0 THEN <<>>
  ELSE IF StrictEq(start, stop) THEN <<start>>
  ELSE IF ~(IsNum(start) /\ IsNum(stop)) THEN <<>>
  ELSE TicksOf(TickSpec(start, stop, Num(count)))

\* d3.ticks(start, stop, count): start = +start, stop = +stop
D3Ticks(start, stop, count) == TicksBetween(ToNumber(start), ToNumber(stop), count)

\* tz.pop() when the last tick is at or beyond the upper bound (the domain is
\* the caller's, not d3.extent itself)
DropLastTick(tz, x1) ==
  IF Len(tz) > 0 /\ JSLeq(x1, tz[Len(tz)]) THEN Front(tz) ELSE tz

\* without the thresholds at or below x0 and those above x1
InsideDomain(tz, x0, x1) ==
  Filter(tz, [i \in 1..Len(tz) |-> ~JSLeq(tz[i], x0) /\ JSLeq(tz[i], x1)])

\* the thresholds d3.bin keeps
BinThresholds(x0, x1, count) ==
  InsideDomain(DropLastTick(D3Ticks(x0, x1, count), x1), x0, x1)

\* the value is binned: not null, not undefined, and inside [x0, x1]
Binned(x, x0, x1) == x # Null /\ x # Undef /\ JSLeq(x0, x) /\ JSLeq(x, x1)

\* bisectRight(tz, x): the number of thresholds <= x
Bisect(tz, x) == Cardinality({i \in 1..Len(tz) : JSLeq(tz[i], x)})

\* bins [x0, x1, members: the indices of the values in the bin]; the first bin is
\* bins[0] in the code and the first here
BinsOf(x0, x1, tz, values) ==
  [b \in 1..(Len(tz) + 1) |->
    [x0 |-> IF b > 1 THEN tz[b - 1] ELSE x0,
     x1 |-> IF b <= Len(tz) THEN tz[b] ELSE x1,
     members |-> {i \in 1..Len(values) :
                    Binned(values[i], x0, x1) /\ Bisect(tz, values[i]) = b - 1}]]

\* d3.bin().domain(domain).thresholds(count)(values)
D3Bin(domain, count, values) ==
  BinsOf(domain[1], domain[2], BinThresholds(domain[1], domain[2], count), values)

\* the default of createBins's binCount parameter
DefaultBinCount == 10

BinRecords(bins, total) ==
  [b \in 1..Len(bins) |->
    [binStart |-> OrZero(bins[b].x0),
     binEnd |-> OrZero(bins[b].x1),
     count |-> Cardinality(bins[b].members),
     percentage |-> Percentage(Cardinality(bins[b].members), total)]]

createBins(rows, variable, binCount) ==
  BinRecords(D3Bin(D3Extent(Column(rows, variable)), binCount, Column(rows, variable)),
             Len(rows))

(* ------------------------------ grouping ------------------------------ *)

groupByCategory(rows, category) == D3Group(rows, category)

GroupSummary(key, values, vals) ==
  [group |-> key,
   count |-> Len(values),
   mean |-> OrZero(D3Mean(vals)),
   median |-> OrZero(D3Median(vals)),
   stdDev |-> OrZero(D3Deviation(vals)),
   min |-> OrZero(D3Min(vals)),
   max |-> OrZero(D3Max(vals))]

Summaries(groups, valueVar) ==
  [k \in 1..Len(groups) |->
    GroupSummary(groups[k].key, groups[k].values, Column(groups[k].values, valueVar))]

summarizeByGroup(rows, groupVar, valueVar) == Summaries(D3Group(rows, groupVar), valueVar)

(* ------------------------------ reshaping ----------------------------- *)

\* the strings of the model that are canonical array indices, and their numbers
IndexNames == [s \in {"0", "1", "2"} |-> CASE s = "0" -> 0 [] s = "1" -> 1 [] s = "2" -> 2]

\* the property key object[v] addresses: ToString(v), given as the number for an
\* array index (1 and '1' are one key) and as the value itself otherwise (on the
\* other values of the model ToString is one-to-one)
ToPropertyKey(v) ==
  IF v.t = "str" /\ v.s \in DOMAIN IndexNames THEN Num(IndexNames[v.s]) ELSE v

IsArrayIndex(key) == IsNum(key) /\ key.d = 1 /\ key.n >= 0

\* the name of the property object[v] of a row for a value v that is a name
NameOf(v) == IF v.t = "str" THEN v.s ELSE v.t

\* { [idColumn]: idValue, variable: column, value: row[column] }
LongRecord(idColumn, idValue, column, value) ==
  SetProp(SetProp(SetProp(<<>>, idColumn, idValue), "variable", Str(column)), "value", value)

\* as LongRecordsOf, going through valueColumns from its end
LongRecordsOfReversed(row, idColumn, valueColumns) ==
  [c \in 1..Len(valueColumns) |->
    LongRecord(idColumn, Get(row, idColumn), valueColumns[Len(valueColumns) + 1 - c],
               Get(row, valueColumns[Len(valueColumns) + 1 - c]))]

\* the records wideToLong pushes for one row, in the order of valueColumns
LongRecordsOf(row, idColumn, valueColumns) ==
  [c \in 1..Len(valueColumns) |->
    LongRecord(idColumn, Get(row, idColumn), valueColumns[c], Get(row, valueColumns[c]))]

RECURSIVE wideToLong(_, _, _)
wideToLong(rows, idColumn, valueColumns) ==
  IF Len(rows) = 0 THEN <<>>
  ELSE wideToLong(Front(rows), idColumn, valueColumns)
         \o LongRecordsOf(rows[Len(rows)], idColumn, valueColumns)

\* result[key][name] = v on the object result, kept as its (key, obj) entries in
\* the order the keys were created; a key that is new starts from {}
Upsert(result, key, name, v) ==
  IF \E k \in 1..Len(result) : result[k].key = key
    THEN [k \in 1..Len(result) |->
           IF result[k].key = key
             THEN [key |-> key, obj |-> SetProp(result[k].obj, name, v)]
             ELSE result[k]]
    ELSE Append(result, [key |-> key, obj |-> SetProp(<<>>, name, v)])

RECURSIVE LongToWideObject(_, _, _, _)
\* the object result after data.forEach
LongToWideObject(rows, id, variable, value) ==
  IF Len(rows) = 0 THEN <<>>
  ELSE Upsert(LongToWideObject(Front(rows), id, variable, value),
              ToPropertyKey(Get(rows[Len(rows)], id)),
              NameOf(Get(rows[Len(rows)], variable)),
              Get(rows[Len(rows)], value))

RECURSIVE InsertByKey(_, _)
InsertByKey(s, e) ==
  IF Len(s) = 0 THEN <<e>>
  ELSE IF Leq(s[1].key, e.key) THEN <<s[1]>> \o InsertByKey(Tail(s), e)
  ELSE <<e>> \o s

RECURSIVE SortByKey(_)
SortByKey(s) == IF Len(s) = 0 THEN <<>> ELSE InsertByKey(SortByKey(Front(s)), s[Len(s)])

Objects(entries) == [k \in 1..Len(entries) |-> entries[k].obj]

\* as ObjectValues, in the order the keys were created
ObjectValuesInCreationOrder(result) == Objects(result)

\* Object.values(result): the properties whose keys are array indices first, in
\* ascending order, then the others in the order they were created
ObjectValues(result) ==
  Objects(SortByKey(Filter(result, [k \in 1..Len(result) |-> IsArrayIndex(result[k].key)]))
            \o Filter(result, [k \in 1..Len(result) |-> ~IsArrayIndex(result[k].key)]))

longToWide(rows, id, variable, value) ==
  ObjectValues(LongToWideObject(rows, id, variable, value))

(* ----------------------------- correlation ---------------------------- *)

RECURSIVE SumJS(_)
\* a sum that starts at 0 and adds with +=
SumJS(s) == IF Len(s) = 0 THEN Num(0) ELSE JSAdd(SumJS(Front(s)), s[Len(s)])

\* values[k] - mean for every k
Diffs(values, mean) == [k \in 1..Len(values) |-> JSSub(ToNumber(values[k]), mean)]

Products(a, b) == [k \in 1..Len(a) |-> JSMul(a[k], b[k])]

\* numerator / Math.sqrt(radicand): NaN for 0 / 0, an infinity for another
\* numerator over 0, else the number of that sign whose square is
\* numerator^2 / radicand
QuotSqrt(numerator, radicand) ==
  IF ~(IsNum(numerator) /\ IsNum(radicand)) \/ radicand.n < 0 THEN NaN
  ELSE IF radicand.n = 0
    THEN (IF numerator.n = 0 THEN NaN ELSE Inf(IF numerator.n > 0 THEN 1 ELSE -1))
  ELSE IF numerator.n = 0 THEN Num(0)
  ELSE IF JSSqrt(Quot(Mul(numerator, numerator), radicand)).t = "num"
    THEN Mul(Num(IF numerator.n > 0 THEN 1 ELSE -1),
             JSSqrt(Quot(Mul(numerator, numerator), radicand)))
  ELSE Surd(IF numerator.n > 0 THEN 1 ELSE -1,
            Quot(Mul(numerator, numerator), radicand).n,
            Quot(Mul(numerator, numerator), radicand).d)

\* as CorrelationOfDiffs, with the square root taken of denominatorX squared
CorrelationOfDiffsXOnly(xDiff, yDiff) ==
  QuotSqrt(SumJS(Products(xDiff, yDiff)),
           JSMul(SumJS(Products(xDiff, xDiff)), SumJS(Products(xDiff, xDiff))))

\* numerator / Math.sqrt(denominatorX * denominatorY) after the loop over k
CorrelationOfDiffs(xDiff, yDiff) ==
  QuotSqrt(SumJS(Products(xDiff, yDiff)),
           JSMul(SumJS(Products(xDiff, xDiff)), SumJS(Products(yDiff, yDiff))))

\* the entry of an off-diagonal pair
Correlation(xValues, yValues) ==
  CorrelationOfDiffs(Diffs(xValues, OrZero(D3Mean(xValues))),
                     Diffs(yValues, OrZero(D3Mean(yValues))))

calculateCorrelationMatrix(rows, variables) ==
  [variables |-> variables,
   matrix |->
     [i \in 1..Len(variables) |->
       [j \in 1..Len(variables) |->
         IF i = j THEN Num(1)
         ELSE Correlation(Column(rows, variables[i]), Column(rows, variables[j]))]]]

(* --------------------- correlation in floating point ------------------ *)
(* The numbers of the program are IEEE 754 doubles: every operation yields  *)
(* the representable number nearest to the exact result, ties going to the  *)
(* even significand.  This section redoes the correlation with that         *)
(* rounding, the significand narrowed from 53 bits to Precision bits (the   *)
(* exponent is not bounded: no value of the model comes near its limits).   *)

\* bits of the significand
Precision == 3

\* 2^e as a number
TwoTo(e) == IF e >= 0 THEN Num(IntPow(2, e)) ELSE Rat(1, IntPow(2, -e))

RECURSIVE ExponentFrom(_, _)
ExponentFrom(x, e) ==
  IF Less(x, TwoTo(e)) THEN ExponentFrom(x, e - 1)
  ELSE IF Leq(TwoTo(e + 1), x) THEN ExponentFrom(x, e + 1)
  ELSE e

\* the e with 2^e <= x < 2^(e+1), for a number x > 0
Exponent(x) == ExponentFrom(x, 0)

\* the integer nearest to m, which lies between k and k + 1; ties to even
NearestEven(m, k) ==
  IF Less(Rat(1, 2), Sub(m, Num(k))) \/ (Sub(m, Num(k)) = Rat(1, 2) /\ k % 2 = 1)
  THEN k + 1 ELSE k

RoundScaled(m, ulp) == Mul(Num(NearestEven(m, Floor(m))), ulp)

\* the multiple of ulp nearest to x
RoundTo(x, ulp) == RoundScaled(Quot(x, ulp), ulp)

RoundPos(x) == RoundTo(x, TwoTo(Exponent(x) - Precision + 1))

\* the representable number nearest to v; NaN and the infinities as they are
Round(v) ==
  IF ~IsNum(v) \/ v.n = 0 THEN v
  ELSE IF v.n > 0 THEN RoundPos(v)
  ELSE Sub(Num(0), RoundPos(Sub(Num(0), v)))

\* a + b, a - b, a * b, a / b of two doubles
FloatAdd(a, b) == Round(JSAdd(a, b))

FloatSub(a, b) == Round(JSSub(a, b))

FloatMul(a, b) == Round(JSMul(a, b))

FloatDiv(a, b) == Round(JSDiv(a, b))

\* the integer nearest to sqrt(m2), which lies between k and k + 1
NearestRoot(m2, k) ==
  IF Less(Rat((2 * k + 1) * (2 * k + 1), 4), m2)
       \/ (m2 = Rat((2 * k + 1) * (2 * k + 1), 4) /\ k % 2 = 1)
  THEN k + 1 ELSE k

RootScaled(m2, ulp) == Mul(Num(NearestRoot(m2, ISqrt(Floor(m2)))), ulp)

RootTo(x, ulp) == RootScaled(Quot(x, Mul(ulp, ulp)), ulp)

\* Math.sqrt: the representable number nearest to the square root
FloatSqrt(v) ==
  IF ~IsNum(v) \/ v.n < 0 THEN NaN
  ELSE IF v.n = 0 THEN v
  ELSE RootTo(v, TwoTo((Exponent(v) \div 2) - Precision + 1))

RECURSIVE FloatSum(_)
\* a sum that starts at 0 and adds with +=, rounding at every step
FloatSum(s) == IF Len(s) = 0 THEN Num(0) ELSE FloatAdd(FloatSum(Front(s)), s[Len(s)])

\* d3.mean: sum / count over the numbers, undefined when there is none
FloatMeanOf(nums) ==
  IF Len(nums) = 0 THEN Undef ELSE FloatDiv(FloatSum(nums), Num(Len(nums)))

FloatMean(vals) == FloatMeanOf(D3Numbers(vals))

FloatDiffs(values, mean) ==
  [k \in 1..Len(values) |-> FloatSub(ToNumber(values[k]), mean)]

FloatProducts(a, b) == [k \in 1..Len(a) |-> FloatMul(a[k], b[k])]

\* numerator / Math.sqrt(denominatorX * denominatorY) after the loop over k
FloatCorrelationOfDiffs(xDiff, yDiff) ==
  FloatDiv(FloatSum(FloatProducts(xDiff, yDiff)),
           FloatSqrt(FloatMul(FloatSum(FloatProducts(xDiff, xDiff)),
                              FloatSum(FloatProducts(yDiff, yDiff)))))

FloatCorrelation(xValues, yValues) ==
  FloatCorrelationOfDiffs(FloatDiffs(xValues, OrZero(FloatMean(xValues))),
                          FloatDiffs(yValues, OrZero(FloatMean(yValues))))

\* calculateCorrelationMatrix, computed in floating point
FloatCorrelationMatrix(rows, variables) ==
  [variables |-> variables,
   matrix |->
     [i \in 1..Len(variables) |->
       [j \in 1..Len(variables) |->
         IF i = j THEN Num(1)
         ELSE FloatCorrelation(Column(rows, variables[i]), Column(rows, variables[j]))]]]

(* ---------------------------- missing data ---------------------------- *)

\* as IsMissing, with every falsy value taken as missing: !d[variable]
IsFalsy(v) == OrZero(v) = Num(0)

\* d[variable] === null || d[variable] === undefined || d[variable] === ''
IsMissing(v) == v = Null \/ v = Undef \/ v = Str("")

\* the order in which Object.keys lists the properties of a row: none of the
\* names is an array index, so it is the order of creation, taken to be this one
KeyOrder == <<"id", "x", "y", "variable", "value">>

ObjectKeys(row) ==
  Filter(KeyOrder, [i \in 1..Len(KeyOrder) |-> KeyOrder[i] \in DOMAIN row])

\* data.filter(d => keep(d[variable])) with the predicate of the three branches
NonMissingRows(rows, variable) ==
  Filter(rows, [i \in 1..Len(rows) |-> ~IsMissing(Get(rows[i], variable))])

\* data.filter(d => missing(d[variable])).length
MissingCount(rows, variable) ==
  Cardinality({i \in 1..Len(rows) : IsMissing(Get(rows[i], variable))})

MissingReports(rows, variables) ==
  [k \in 1..Len(variables) |->
    [variable |-> variables[k],
     count |-> MissingCount(rows, variables[k]),
     percentage |-> Percentage(MissingCount(rows, variables[k]), Len(rows))]]

countMissingValues(rows) ==
  IF Len(rows) = 0 THEN <<>>
  ELSE SortByCountDesc(MissingReports(rows, ObjectKeys(rows[1])))

\* JSON.stringify of a value inside an object, then JSON.parse: NaN and the
\* infinities are written as null
JSONValue(v) == IF v.t \in {"nan", "inf"} THEN Null ELSE v

\* JSON.parse(JSON.stringify(rows)): a property whose value is undefined is not
\* written, so the copy does not have it
JSONClone(rows) ==
  [i \in 1..Len(rows) |->
    [k \in {q \in DOMAIN rows[i] : rows[i][q] # Undef} |-> JSONValue(rows[i][k])]]

\* frequencies[0]?.value || 0
TopValueOrZero(frequencies) ==
  OrZero(IF Len(frequencies) = 0 THEN Undef ELSE frequencies[1].value)

\* the value written into the missing cells; undefined when no branch is taken
ValueToImpute(rows, variable, method) ==
  CASE method = "mean" -> calculateMean(NonMissingRows(rows, variable), variable)
    [] method = "median" -> calculateMedian(NonMissingRows(rows, variable), variable)
    [] method = "mode" ->
         TopValueOrZero(calculateFrequencies(NonMissingRows(rows, variable), variable))
    [] OTHER -> Undef

\* newData.forEach(d => { if (missing(d[variable])) d[variable] = valueToImpute })
FillMissing(rows, variable, v) ==
  [i \in 1..Len(rows) |->
    IF IsMissing(Get(rows[i], variable)) THEN SetProp(rows[i], variable, v) ELSE rows[i]]

\* arg: the caller's array after the call; ret: the array returned
imputeMissingValues(rows, variable, method) ==
  [arg |-> rows,
   ret |-> FillMissing(JSONClone(rows), variable, ValueToImpute(rows, variable, method))]

(* ------------------------------ the caller ---------------------------- *)

\* all sequences over S of length at most n
SeqsUpTo(S, n) == UNION {[1..k -> S] : k \in 0..n}

\* the methods a caller may pass: the three of the signature and one that is none
Methods == {"mean", "median", "mode", "max"}

Fields == {"x", "y"}

XValues == {Num(0), Num(1), Num(2), Null, Str(""), NaN}

YValues == {Num(1), NaN}

\* rows with x and y, and rows that have no property x
MissingRows ==
  {[x |-> v, y |-> w] : v \in XValues, w \in YValues} \cup {[y |-> w] : w \in YValues}

Idle == [fn |-> "none"]

\* useState({visible: false, data: null, x: 0, y: 0})
InitialTooltip == [visible |-> FALSE, data |-> "null", x |-> 0, y |-> 0]

\* useState({left: 0, top: 0})
InitialPosition == [left |-> 0, top |-> 0]

\* no component is mounted: the caller of the data transforms is alone
Unmounted ==
  /\ tooltip = InitialTooltip
  /\ pending = <<>>
  /\ lastPoint = "none"
  /\ overlapped = FALSE
  /\ position = InitialPosition
  /\ layout = <<>>
  /\ effect = "none"

InitMissing ==
  /\ data \in SeqsUpTo(MissingRows, MaxLen)
  /\ call = Idle
  /\ ret = <<>>
  /\ outcome = "idle"
  /\ Unmounted

\* the caller's state after a call that left arg in its array and returned ret
Returned(r) ==
  /\ data' = r.arg
  /\ ret' = r.ret
  /\ outcome' = "returned"
  /\ UNCHANGED uiVars

ImputeMissingValues ==
  \E variable \in Fields, method \in Methods :
    /\ outcome = "idle"
    /\ call' = [fn |-> "imputeMissingValues", rows |-> data,
                variable |-> variable, method |-> method]
    /\ Returned(imputeMissingValues(data, variable, method))

CountMissingValues ==
  /\ outcome = "idle"
  /\ call' = [fn |-> "countMissingValues", rows |-> data]
  /\ ret' = countMissingValues(data)
  /\ outcome' = "returned"
  /\ UNCHANGED <<data, uiVars>>

NextMissing == ImputeMissingValues \/ CountMissingValues

SpecMissing == InitMissing /\ [][NextMissing]_vars

(* ---------------- the caller that only counts missing values ---------- *)

\* rows with x and y, rows with y only and rows with x only
CountRows ==
  {[x |-> v, y |-> w] : v \in {Num(0), False, NaN, Null, Str("")}, w \in {Num(1), Null}}
    \cup {[y |-> w] : w \in {Num(1), Null}}
    \cup {[x |-> Num(0)]}

InitCountMissing ==
  /\ data \in SeqsUpTo(CountRows, MaxLen)
  /\ call = Idle
  /\ ret = <<>>
  /\ outcome = "idle"
  /\ Unmounted

NextCountMissing == CountMissingValues

SpecCountMissing == InitCountMissing /\ [][NextCountMissing]_vars

(* ------------------- claims about the missing-data functions ---------- *)

ValidMethods == {"mean", "median", "mode"}

Imputed == call.fn = "imputeMissingValues"

\* C1: imputeMissingValues called with a method other than 'mean', 'median' or
\* 'mode' fails with an error: it never returns a dataset.
C1_UnknownMethodRejected ==
  (Imputed /\ call.method \notin ValidMethods) => outcome = "threw"

\* the count countMissingValues reports for a field is 0 (in every report it
\* makes for the field)
ReportsNoneMissing(reports, variable) ==
  \A k \in 1..Len(reports) : reports[k].variable = variable => reports[k].count = 0

\* C5: for every dataset, field and method, imputeMissingValues returns as many
\* records as it was given, and countMissingValues of the returned dataset
\* reports a count of 0 for the imputed field.
C5_ImputeLeavesNoneMissing ==
  Imputed =>
    /\ outcome = "returned"
    /\ Len(ret) = Len(call.rows)
    /\ ReportsNoneMissing(countMissingValues(ret), call.variable)

\* what C5 says, for the three methods of the signature only: this much holds
C5_HoldsForValidMethods ==
  (Imputed /\ call.method \in ValidMethods) =>
    /\ Len(ret) = Len(call.rows)
    /\ ReportsNoneMissing(countMissingValues(ret), call.variable)
    /\ \A i \in 1..Len(ret) : ~IsMissing(Get(ret[i], call.variable))

\* C6: imputeMissingValues does not mutate its input, and the returned dataset
\* differs from the input only in the imputed field of the records where that
\* field was missing.
C6_ImputeCopiesAndFillsOnly ==
  Imputed =>
    /\ data = call.rows
    /\ Len(ret) = Len(call.rows)
    /\ \A i \in 1..Len(ret) : \A f \in Fields :
         (f # call.variable \/ ~IsMissing(Get(call.rows[i], f)))
           => Get(ret[i], f) = Get(call.rows[i], f)

\* the top entry of the frequencies of the non-missing records
TopOf(fr) == IF Len(fr) = 0 THEN Undef ELSE fr[1].value

TopNonMissing(rows, variable) ==
  TopOf(calculateFrequencies(NonMissingRows(rows, variable), variable))

\* the fill value the claim names
FillClaimed(rows, variable, method) ==
  CASE method = "mean" -> calculateMean(NonMissingRows(rows, variable), variable)
    [] method = "median" -> calculateMedian(NonMissingRows(rows, variable), variable)
    [] method = "mode" ->
         IF TopNonMissing(rows, variable) = Undef THEN Num(0)
         ELSE TopNonMissing(rows, variable)

\* the fill value written: a most frequent value that is falsy gives 0 too
FillAmended(rows, variable, method) ==
  IF method = "mode" THEN OrZero(TopNonMissing(rows, variable))
  ELSE FillClaimed(rows, variable, method)

\* C7: every missing cell of the field holds the mean or median of the
\* non-missing values, or for 'mode' the most frequent non-missing value, 0 if
\* there is none.
C7_FillValueAsClaimed ==
  (Imputed /\ call.method \in ValidMethods) =>
    \A i \in 1..Len(call.rows) :
      IsMissing(Get(call.rows[i], call.variable))
        => Get(ret[i], call.variable)
             = FillClaimed(call.rows, call.variable, call.method)

\* what imputeMissingValues does keep: the same, but for 'mode' the fill value
\* is 0 also when the most frequent non-missing value is falsy (NaN)
C7_FillValue ==
  (Imputed /\ call.method \in ValidMethods) =>
    \A i \in 1..Len(call.rows) :
      IsMissing(Get(call.rows[i], call.variable))
        => /\ call.variable \in DOMAIN ret[i]
           /\ ret[i][call.variable]
                = FillAmended(call.rows, call.variable, call.method)

(* ---------------- the caller of the table statistics ------------------ *)

TableXValues == {Num(0), Num(1), Num(3), Null, Str(""), NaN}

GroupValues == {Str("a"), Str("b")}

\* rows with a group g and a measure x, and rows that have no property x
TableRows ==
  {[g |-> k, x |-> v] : k \in GroupValues, v \in TableXValues}
    \cup {[g |-> k] : k \in GroupValues}

BinCounts == (1..MaxBins) \cup {DefaultBinCount}

InitTable ==
  /\ data \in SeqsUpTo(TableRows, MaxLen)
  /\ call = Idle
  /\ ret = <<>>
  /\ outcome = "idle"
  /\ Unmounted

CalculateFrequencies ==
  \E variable \in {"g", "x"} :
    /\ outcome = "idle"
    /\ call' = [fn |-> "calculateFrequencies", rows |-> data, variable |-> variable]
    /\ ret' = calculateFrequencies(data, variable)
    /\ outcome' = "returned"
    /\ UNCHANGED <<data, uiVars>>

CreateBins ==
  \E binCount \in BinCounts :
    /\ outcome = "idle"
    /\ call' = [fn |-> "createBins", rows |-> data, variable |-> "x",
                binCount |-> binCount]
    /\ ret' = createBins(data, "x", binCount)
    /\ outcome' = "returned"
    /\ UNCHANGED <<data, uiVars>>

SummarizeByGroup ==
  \E groupVar \in {"g", "x"} :
    /\ outcome = "idle"
    /\ call' = [fn |-> "summarizeByGroup", rows |-> data, groupVar |-> groupVar,
                valueVar |-> "x"]
    /\ ret' = summarizeByGroup(data, groupVar, "x")
    /\ outcome' = "returned"
    /\ UNCHANGED <<data, uiVars>>

NextTable == CalculateFrequencies \/ CreateBins \/ SummarizeByGroup

SpecTable == InitTable /\ [][NextTable]_vars

(* ------------------- claims about the table statistics ---------------- *)

RECURSIVE SumCounts(_)
\* the sum of the counts of a sequence of entries
SumCounts(entries) ==
  IF Len(entries) = 0 THEN 0 ELSE entries[Len(entries)].count + SumCounts(Front(entries))

RECURSIVE SumPercentages(_)
SumPercentages(entries) ==
  IF Len(entries) = 0 THEN Num(0)
  ELSE JSAdd(entries[Len(entries)].percentage, SumPercentages(Front(entries)))

\* the rows of the call whose field has the value v
RowsWith(variable, v) == {i \in 1..Len(call.rows) : Get(call.rows[i], variable) = v}

\* the first row of the call whose field has the value v
FirstSeen(variable, v) ==
  CHOOSE i \in RowsWith(variable, v) : \A j \in RowsWith(variable, v) : i <= j

Binning == call.fn = "createBins"

\* each bin ends where the next one starts, and no bin ends before it starts
Contiguous(bins) ==
  /\ \A b \in 1..(Len(bins) - 1) : StrictEq(bins[b].binEnd, bins[b + 1].binStart)
  /\ \A b \in 1..Len(bins) : JSLeq(bins[b].binStart, bins[b].binEnd)

\* the rows of the call whose field is a value d3.bin places: not null, not
\* undefined, not NaN
Placeable(variable) ==
  {i \in 1..Len(call.rows) : Get(call.rows[i], variable) \notin {Null, Undef, NaN}}

\* C4: the counts of the bins sum to dataset.length, records whose field is
\* missing or not numeric included, and the bins are contiguous: each binEnd is
\* the next binStart and binStart <= binEnd.
C4_BinsHoldEveryRecord ==
  Binning =>
    /\ SumCounts(ret) = Len(call.rows)
    /\ Contiguous(ret)

\* what createBins does keep, over numbers, '', null, undefined and NaN: the
\* counts sum to the number of records whose field is neither null, undefined
\* nor NaN, and the bins are contiguous
C4_BinsHoldPlaceableRecords ==
  Binning =>
    /\ Len(ret) >= 1
    /\ SumCounts(ret) = Cardinality(Placeable(call.variable))
    /\ Contiguous(ret)

Counted == call.fn = "calculateFrequencies"

\* C8 as claimed: for every dataset the counts of the frequencies sum to
\* dataset.length and their percentages sum to 100.
C8_FrequenciesSumTo100 ==
  Counted =>
    /\ SumCounts(ret) = Len(call.rows)
    /\ SumPercentages(ret) = Num(100)

\* C8 as amended: the counts sum to dataset.length, and the percentages sum to
\* 100 for every dataset that is not empty (to 0 for the empty one).
C8_FrequenciesSum ==
  Counted =>
    /\ SumCounts(ret) = Len(call.rows)
    /\ Len(call.rows) > 0 => SumPercentages(ret) = Num(100)
    /\ Len(call.rows) = 0 => SumPercentages(ret) = Num(0)

\* C8's case: three records, two values, percentages that are not integers
C8_Witness ==
  /\ Counted
  /\ Len(call.rows) = 3
  /\ Len(ret) = 2
  /\ ret[1].percentage = Rat(200, 3)
  /\ ret[2].percentage = Rat(100, 3)

\* C9: calculateFrequencies returns one entry per distinct value of the field,
\* with the number of records that have it, sorted by count descending, entries
\* of equal count in the order their values are first seen.
C9_FrequenciesOrder ==
  Counted =>
    /\ \A i \in 1..Len(call.rows) :
         \E k \in 1..Len(ret) : ret[k].value = Get(call.rows[i], call.variable)
    /\ \A k \in 1..Len(ret) :
         /\ ret[k].count = Cardinality(RowsWith(call.variable, ret[k].value))
         /\ ret[k].count >= 1
    /\ \A k, l \in 1..Len(ret) :
         k < l =>
           /\ ret[k].value # ret[l].value
           /\ ret[k].count >= ret[l].count
           /\ ret[k].count = ret[l].count
                => FirstSeen(call.variable, ret[k].value)
                     < FirstSeen(call.variable, ret[l].value)

\* C9's case: three values of one record each, which stay in the order they
\* are first seen
C9_Witness ==
  /\ Counted
  /\ call.variable = "x"
  /\ Len(ret) = 3
  /\ ret[1].value = Null
  /\ ret[2].value = Undef
  /\ ret[3].value = Str("")

Summarized == call.fn = "summarizeByGroup"

\* C10: summarizeByGroup emits one summary per distinct value of the grouping
\* field, in the order the values are first seen, each with the number of
\* records of its group, and the counts sum to dataset.length.
C10_OneSummaryPerGroup ==
  Summarized =>
    /\ \A i \in 1..Len(call.rows) :
         \E k \in 1..Len(ret) : ret[k].group = Get(call.rows[i], call.groupVar)
    /\ \A k \in 1..Len(ret) :
         /\ ret[k].count = Cardinality(RowsWith(call.groupVar, ret[k].group))
         /\ ret[k].count >= 1
    /\ \A k, l \in 1..Len(ret) :
         k < l =>
           /\ ret[k].group # ret[l].group
           /\ FirstSeen(call.groupVar, ret[k].group)
                < FirstSeen(call.groupVar, ret[l].group)
    /\ SumCounts(ret) = Len(call.rows)

\* C10's case: the group seen first has one record, the group seen second two
C10_Witness ==
  /\ Summarized
  /\ call.groupVar = "g"
  /\ Len(ret) = 2
  /\ ret[1].group = Str("b")
  /\ ret[1].count = 1
  /\ ret[2].group = Str("a")
  /\ ret[2].count = 2
  /\ ret[2].mean = Rat(1, 2)

(* ------------------ the caller of the correlation matrix -------------- *)

CorrelationRows ==
  {[x |-> a, y |-> b] : a \in {Num(0), Num(1), Num(2)},
                        b \in {Num(0), Num(1), Num(3), Null}}

\* the lists of fields a caller asks for; z is a field no row has
VariableLists ==
  {<<>>, <<"x">>, <<"x", "y">>, <<"y", "x">>, <<"x", "x">>, <<"x", "z", "y">>}

InitCorrelation ==
  /\ data \in SeqsUpTo(CorrelationRows, MaxLen)
  /\ call = Idle
  /\ ret = <<>>
  /\ outcome = "idle"
  /\ Unmounted

CalculateCorrelationMatrix ==
  \E variables \in VariableLists :
    /\ outcome = "idle"
    /\ call' = [fn |-> "calculateCorrelationMatrix", rows |-> data,
                variables |-> variables]
    /\ ret' = calculateCorrelationMatrix(data, variables)
    /\ outcome' = "returned"
    /\ UNCHANGED <<data, uiVars>>

NextCorrelation == CalculateCorrelationMatrix

SpecCorrelation == InitCorrelation /\ [][NextCorrelation]_vars

Correlated == call.fn = "calculateCorrelationMatrix"

FloatRows ==
  {[x |-> a, y |-> b] : a \in {Num(2), Num(3), Num(7)}, b \in {Num(0), Num(1), Num(2)}}

FloatVariableLists == {<<"x", "y">>, <<"y", "x">>, <<"x", "y", "x">>}

InitFloatCorrelation ==
  /\ data \in SeqsUpTo(FloatRows, MaxLen)
  /\ call = Idle
  /\ ret = <<>>
  /\ outcome = "idle"
  /\ Unmounted

FloatCalculateCorrelationMatrix ==
  \E variables \in FloatVariableLists :
    /\ outcome = "idle"
    /\ call' = [fn |-> "calculateCorrelationMatrix", rows |-> data,
                variables |-> variables]
    /\ ret' = FloatCorrelationMatrix(data, variables)
    /\ outcome' = "returned"
    /\ UNCHANGED <<data, uiVars>>

NextFloatCorrelation == FloatCalculateCorrelationMatrix

SpecFloatCorrelation == InitFloatCorrelation /\ [][NextFloatCorrelation]_vars

\* the field has the same number in every record of a dataset that is not empty
ZeroVariance(variable) ==
  /\ Len(call.rows) >= 1
  /\ IsNum(Get(call.rows[1], variable))
  /\ \A i \in 1..Len(call.rows) : Get(call.rows[i], variable) = Get(call.rows[1], variable)

\* C12: when either field of an off-diagonal pair has zero variance over the
\* dataset, the entry of the pair is not-a-number and the call returns: it
\* does not throw and puts no other value, such as 0, in its place.
C12_ZeroVarianceIsNaN ==
  Correlated =>
    /\ outcome = "returned"
    /\ \A i, j \in 1..Len(call.variables) :
         (i # j /\ (ZeroVariance(call.variables[i]) \/ ZeroVariance(call.variables[j])))
           => ret.matrix[i][j] = NaN

(* ----------------------- the caller that reshapes --------------------- *)

IdValues == {Num(1), Num(2), Str("a"), Str("1")}

\* wide rows: an id, x, and y or no y
WideRows ==
  {[id |-> i, x |-> a, y |-> Num(5)] : i \in IdValues, a \in {Num(0), Num(7)}}
    \cup {[id |-> i, x |-> a] : i \in IdValues, a \in {Num(0), Num(7)}}

ValueColumnLists == {<<>>, <<"x">>, <<"x", "y">>, <<"y", "x">>}

\* the names of the id column a caller passes: the one the rows have, and one
\* that is also the name of a property of the long records
IdColumns == {"id", "value"}

InitReshape ==
  /\ data \in SeqsUpTo(WideRows, MaxLen)
  /\ call = Idle
  /\ ret = <<>>
  /\ outcome = "idle"
  /\ Unmounted

WideToLong ==
  \E idColumn \in IdColumns, valueColumns \in ValueColumnLists :
    /\ outcome = "idle"
    /\ call' = [fn |-> "wideToLong", rows |-> data, idColumn |-> idColumn,
                valueColumns |-> valueColumns]
    /\ ret' = wideToLong(data, idColumn, valueColumns)
    /\ outcome' = "returned"
    /\ UNCHANGED <<data, uiVars>>

\* the caller pivots back what wideToLong returned
LongToWide ==
  /\ outcome = "returned"
  /\ call.fn = "wideToLong"
  /\ call' = [fn |-> "longToWide", rows |-> ret, id |-> call.idColumn,
              variable |-> "variable", value |-> "value",
              valueColumns |-> call.valueColumns]
  /\ ret' = longToWide(ret, call.idColumn, "variable", "value")
  /\ outcome' = "returned"
  /\ UNCHANGED <<data, uiVars>>

NextReshape == WideToLong \/ LongToWide

SpecReshape == InitReshape /\ [][NextReshape]_vars

RoundTripped == call.fn = "longToWide"

UniqueIds(rows, id) ==
  \A i, j \in 1..Len(rows) : i # j => Get(rows[i], id) # Get(rows[j], id)

\* C2: for a wide dataset with unique ids (and at least one value field),
\* longToWide of wideToLong gives back the wide dataset: the same records in the
\* same order, each with its id field and its value fields.
C2_RoundTrip ==
  (RoundTripped /\ UniqueIds(data, call.id) /\ Len(call.valueColumns) >= 1) =>
    /\ Len(ret) = Len(data)
    /\ \A i \in 1..Len(ret) :
         /\ Get(ret[i], call.id) = Get(data[i], call.id)
         /\ \A c \in 1..Len(call.valueColumns) :
              Get(ret[i], call.valueColumns[c]) = Get(data[i], call.valueColumns[c])

(* ------------------ the caller of the basic statistics ---------------- *)

StatValues == {Num(-1), Num(0), Num(2), Null, Str(""), Str("a"), NaN}

\* rows with a measure x, and the row that has no property x
StatRows == {[x |-> v] : v \in StatValues} \cup {[g |-> Str("a")]}

\* the quantiles a caller asks for
Probabilities == {Num(0), Rat(1, 2), Num(1)}

QuantileLists == SeqsUpTo(Probabilities, 2) \cup {DefaultQuantiles}

InitStats ==
  /\ data \in SeqsUpTo(StatRows, MaxLen)
  /\ call = Idle
  /\ ret = <<>>
  /\ outcome = "idle"
  /\ Unmounted

CalculateMean ==
  /\ outcome = "idle"
  /\ call' = [fn |-> "calculateMean", rows |-> data, variable |-> "x"]
  /\ ret' = calculateMean(data, "x")
  /\ outcome' = "returned"
  /\ UNCHANGED <<data, uiVars>>

CalculateMedian ==
  /\ outcome = "idle"
  /\ call' = [fn |-> "calculateMedian", rows |-> data, variable |-> "x"]
  /\ ret' = calculateMedian(data, "x")
  /\ outcome' = "returned"
  /\ UNCHANGED <<data, uiVars>>

CalculateStandardDeviation ==
  /\ outcome = "idle"
  /\ call' = [fn |-> "calculateStandardDeviation", rows |-> data, variable |-> "x"]
  /\ ret' = calculateStandardDeviation(data, "x")
  /\ outcome' = "returned"
  /\ UNCHANGED <<data, uiVars>>

CalculateQuantiles ==
  \E q \in QuantileLists :
    /\ outcome = "idle"
    /\ call' = [fn |-> "calculateQuantiles", rows |-> data, variable |-> "x", q |-> q]
    /\ ret' = calculateQuantiles(data, "x", q)
    /\ outcome' = "returned"
    /\ UNCHANGED <<data, uiVars>>

NextStats ==
  CalculateMean \/ CalculateMedian \/ CalculateStandardDeviation \/ CalculateQuantiles

SpecStats == InitStats /\ [][NextStats]_vars

(* ------------------- claims about the basic statistics ---------------- *)

\* the numbers among the values of the field in the rows of the call
NumbersOfField ==
  {Get(call.rows[i], call.variable) : i \in 1..Len(call.rows)} \cap
    {v \in StatValues : IsNum(v)}

\* the least and the greatest of a non-empty set of numbers
LeastOf(S) == CHOOSE m \in S : \A v \in S : Leq(m, v)

GreatestOf(S) == CHOOSE m \in S : \A v \in S : Leq(v, m)

QuantilesAsked == call.fn = "calculateQuantiles"

\* C11: calculateQuantiles returns one value per requested quantile, and for
\* the request [0, 1] over a field that has numbers it returns exactly the
\* least and the greatest of them, whatever the order of the records.
C11_QuantilesMinMax ==
  QuantilesAsked =>
    /\ Len(ret) = Len(call.q)
    /\ (call.q = <<Num(0), Num(1)>> /\ NumbersOfField # {})
         => ret = <<LeastOf(NumbersOfField), GreatestOf(NumbersOfField)>>

\* what calculateQuantiles does keep: the same, for a field that has no string
\* among its values (d3.quantile counts '' as the number 0)
C11_HoldsWithoutStrings ==
  QuantilesAsked =>
    /\ Len(ret) = Len(call.q)
    /\ ( /\ call.q = <<Num(0), Num(1)>>
         /\ NumbersOfField # {}
         /\ \A i \in 1..Len(call.rows) : Get(call.rows[i], call.variable).t # "str" )
         => ret = <<LeastOf(NumbersOfField), GreatestOf(NumbersOfField)>>

Aggregated ==
  call.fn \in {"calculateMean", "calculateMedian", "calculateStandardDeviation"}

\* C13: calculateMean, calculateMedian and calculateStandardDeviation return 0,
\* and do not throw, when the dataset is empty or no record has a number in
\* the field.
C13_ZeroWithoutNumbers ==
  (Aggregated /\ NumbersOfField = {}) =>
    /\ outcome = "returned"
    /\ ret = Num(0)

\* C13's case: three records whose field holds null, a name and NaN
C13_Witness ==
  /\ call.fn = "calculateStandardDeviation"
  /\ Len(call.rows) = 3
  /\ Column(call.rows, call.variable) = <<Null, Str("a"), NaN>>
  /\ ret = Num(0)

(* ----------------------- claims about the reshaping ------------------- *)

Pivoted == call.fn = "longToWide"

\* the records of the call whose id is v, and those whose id has the key v
RowsOfId(v) == {i \in 1..Len(call.rows) : Get(call.rows[i], call.id) = v}

RowsOfKey(v) ==
  {i \in 1..Len(call.rows) : ToPropertyKey(Get(call.rows[i], call.id)) = v}

\* the last of the records in S that names the variable n
LastNaming(S, n) ==
  CHOOSE i \in S :
    /\ NameOf(Get(call.rows[i], call.variable)) = n
    /\ \A j \in S : NameOf(Get(call.rows[j], call.variable)) = n => j <= i

\* the wide record of the records in S: one property per variable they name,
\* holding the value of the last record that names it
LastWrites(S) ==
  [n \in {NameOf(Get(call.rows[i], call.variable)) : i \in S} |->
    Get(call.rows[LastNaming(S, n)], call.value)]

IdsOfCall == {Get(call.rows[i], call.id) : i \in 1..Len(call.rows)}

KeysOfCall == {ToPropertyKey(v) : v \in IdsOfCall}

\* C14: longToWide returns one record per distinct id value of its input, and
\* the record of an id holds, under every variable name, the value of the last
\* input record with that id and variable.
C14_OneRecordPerId ==
  Pivoted =>
    /\ Len(ret) = Cardinality(IdsOfCall)
    /\ \A v \in IdsOfCall : \E k \in 1..Len(ret) : ret[k] = LastWrites(RowsOfId(v))

\* what longToWide does keep: one record per distinct property key of the ids
\* (the ids 1 and '1' have the same key), with the last value written per
\* variable
C14_HoldsPerPropertyKey ==
  Pivoted =>
    /\ Len(ret) = Cardinality(KeysOfCall)
    /\ \A v \in KeysOfCall : \E k \in 1..Len(ret) : ret[k] = LastWrites(RowsOfKey(v))

Unpivoted == call.fn = "wideToLong"

\* the record wideToLong is to emit for record r and value field c
LongRecordAt(r, c) ==
  /\ DOMAIN ret[(r - 1) * Len(call.valueColumns) + c] = {call.idColumn, "variable", "value"}
  /\ ret[(r - 1) * Len(call.valueColumns) + c][call.idColumn] = Get(call.rows[r], call.idColumn)
  /\ ret[(r - 1) * Len(call.valueColumns) + c]["variable"] = Str(call.valueColumns[c])
  /\ ret[(r - 1) * Len(call.valueColumns) + c]["value"]
       = Get(call.rows[r], call.valueColumns[c])

LongRecordsInOrder ==
  /\ Len(ret) = Len(call.rows) * Len(call.valueColumns)
  /\ \A r \in 1..Len(call.rows) : \A c \in 1..Len(call.valueColumns) : LongRecordAt(r, c)

\* C15 as claimed: wideToLong emits dataset.length * valueFields.length records,
\* and the record for input record r and value field c, at position
\* r * valueFields.length + c counted from 0, holds the id of r, the name of the
\* field as variable and the value of the field as value, for any id field.
C15_LongRecordsAnyIdField == Unpivoted => LongRecordsInOrder

\* C15 as amended: the same, for an id field that is not itself named
\* 'variable' or 'value' (the property of that name would hold the id).
C15_LongRecords ==
  (Unpivoted /\ call.idColumn \notin {"variable", "value"}) => LongRecordsInOrder

\* C15's case: two records and two value fields, the second record without
\* the second field
C15_Witness ==
  /\ Unpivoted
  /\ call.idColumn = "id"
  /\ call.valueColumns = <<"x", "y">>
  /\ Len(call.rows) = 2
  /\ Len(ret) = 4
  /\ ret[2]["value"] = Num(5)
  /\ ret[3]["id"] = Str("a")
  /\ ret[3]["value"] = Num(7)
  /\ ret[4]["value"] = Undef

(* ------------------- claims about countMissingValues ------------------ *)

CountedMissing == call.fn = "countMissingValues"

\* the records of the call whose field is null, undefined or ''
MissingIn(variable) ==
  {i \in 1..Len(call.rows) : Get(call.rows[i], variable) \in {Null, Undef, Str("")}}

\* C16: countMissingValues returns an empty list for an empty dataset; else
\* one report per field of the first record, whose count is the number of
\* records where the field is null, undefined or '' (0, false and NaN are not
\* missing), the reports sorted by count descending.
C16_MissingReports ==
  CountedMissing =>
    /\ outcome = "returned"
    /\ Len(call.rows) = 0 => ret = <<>>
    /\ Len(call.rows) > 0 =>
         /\ Len(ret) = Cardinality(DOMAIN call.rows[1])
         /\ \A f \in DOMAIN call.rows[1] :
              \E k \in 1..Len(ret) :
                /\ ret[k].variable = f
                /\ ret[k].count = Cardinality(MissingIn(f))
         /\ \A k, l \in 1..Len(ret) : k < l => ret[k].count >= ret[l].count

\* C16's case: the second field of the first record has more missing values
\* than the first and is reported first; a 0 and a false are not counted
C16_Witness ==
  /\ CountedMissing
  /\ Len(call.rows) = 3
  /\ call.rows[1] = [x |-> Num(0), y |-> Null]
  /\ call.rows[2] = [x |-> False, y |-> Null]
  /\ call.rows[3] = [x |-> Str(""), y |-> Num(1)]
  /\ Len(ret) = 2
  /\ ret[1].variable = "y"
  /\ ret[1].count = 2
  /\ ret[2].variable = "x"
  /\ ret[2].count = 1

(* --------------------------- the components --------------------------- *)

\* most values handed to setTooltip between two renders
MaxPending == 2

\* offset = { x: 10, y: -10 }, the default of the prop
DefaultOffset == [x |-> 10, y |-> -10]

\* left after the adjustment for the right edge
LeftOf(x, width, viewportWidth, offset) ==
  IF x + offset.x + width > viewportWidth THEN x - width - offset.x ELSE x + offset.x

\* top after the adjustment for the bottom edge
TopBeforeClamp(y, height, viewportHeight, offset) ==
  IF y + offset.y + height > viewportHeight THEN y - height - offset.y ELSE y + offset.y

\* if (top < 0) top = 0
ClampTop(top) == IF top < 0 THEN 0 ELSE top

\* the position the effect of Tooltip hands to setPosition
ComputePosition(x, y, l) ==
  [left |-> LeftOf(x, l.width, l.viewportWidth, l.offset),
   top |-> ClampTop(TopBeforeClamp(y, l.height, l.viewportHeight, l.offset))]

\* setTooltip(v), called by a handler of the last render
SetTooltip(v) ==
  /\ Len(pending) < MaxPending
  /\ pending' = Append(pending, v)
  /\ overlapped' = (overlapped \/ Len(pending) > 0)

\* the data of the points of the chart
PointData == {"p", "q"}

\* the size of the tooltip, the offset and the window
Layouts ==
  {[width |-> w, height |-> 40, viewportWidth |-> 320, viewportHeight |-> 200, offset |-> o] :
     w \in {100, 200}, o \in {DefaultOffset, [x |-> 0, y |-> 0]}}

\* event.clientX and event.clientY, inside the window
ClientXs == {0, 150, 320}

ClientYs == {0, 195}

InitTooltip ==
  /\ data = <<>>
  /\ call = Idle
  /\ ret = <<>>
  /\ outcome = "idle"
  /\ tooltip = InitialTooltip
  /\ pending = <<>>
  /\ lastPoint = "none"
  /\ overlapped = FALSE
  /\ position = InitialPosition
  /\ layout \in Layouts
  /\ effect = "due"

\* handleMouseOver, as onPointHover of the chart
PointHover ==
  \E d \in PointData, x \in ClientXs, y \in ClientYs :
    /\ SetTooltip([visible |-> TRUE, data |-> d, x |-> x, y |-> y])
    /\ lastPoint' = "hover"
    /\ UNCHANGED <<dataVars, tooltip, position, layout, effect>>

\* handleMouseMove: tooltip is the state of the render that made the handler
MouseMove ==
  \E x \in ClientXs, y \in ClientYs :
    /\ IF tooltip.visible
         THEN SetTooltip([tooltip EXCEPT !.x = x, !.y = y])
         ELSE UNCHANGED <<pending, overlapped>>
    /\ UNCHANGED <<dataVars, tooltip, lastPoint, position, layout, effect>>

\* handleMouseOut, as onPointLeave of the chart
PointLeave ==
  /\ SetTooltip([tooltip EXCEPT !.visible = FALSE])
  /\ lastPoint' = "leave"
  /\ UNCHANGED <<dataVars, tooltip, position, layout, effect>>

\* the render after the state updates: the values handed to setTooltip replace
\* the state one after the other; Tooltip is rendered with the new props and a
\* new default offset object, so its effect is due
Render ==
  /\ Len(pending) > 0
  /\ tooltip' = pending[Len(pending)]
  /\ pending' = <<>>
  /\ effect' = "due"
  /\ UNCHANGED <<dataVars, lastPoint, overlapped, position, layout>>

\* the effect of Tooltip; the render that setPosition causes leaves the props
\* as they are, and the effect that follows it computes the same position
PositionEffect ==
  /\ effect = "due"
  /\ effect' = "ran"
  /\ position' = IF tooltip.visible THEN ComputePosition(tooltip.x, tooltip.y, layout)
                 ELSE position
  /\ UNCHANGED <<dataVars, tooltip, pending, lastPoint, overlapped, layout>>

NextTooltip == PointHover \/ MouseMove \/ PointLeave \/ Render \/ PositionEffect

SpecTooltip == InitTooltip /\ [][NextTooltip]_vars

(* ---------------------- claims about the components ------------------- *)

\* the tooltip is shown at the position computed for the pointer
Shown == tooltip.visible /\ effect = "ran"

\* C17: whenever the Tooltip is visible, the position it computes keeps it
\* within the viewport: left >= 0, left + width <= viewportWidth, top >= 0 and
\* top + height <= viewportHeight.
C17_TooltipWithinViewport ==
  Shown =>
    /\ position.left >= 0
    /\ position.left + layout.width <= layout.viewportWidth
    /\ position.top >= 0
    /\ position.top + layout.height <= layout.viewportHeight

\* what Tooltip does keep: the top edge, and the right edge
C17_HoldsForTopAndRight ==
  Shown =>
    /\ position.top >= 0
    /\ position.left + layout.width <= layout.viewportWidth

\* C18: for any interleaving of hover, move and leave events, several of them
\* handled before a render included, the tooltip is visible exactly when the
\* most recent hover or leave was a hover: after a leave it stays hidden until
\* the next hover, and a move does not make a hidden tooltip visible.
C18_VisibleIffHovered ==
  Len(pending) = 0 => (tooltip.visible <=> lastPoint = "hover")

\* what withTooltip does keep: the same, as long as every handler runs on the
\* state its setTooltip replaces (a render between any two events)
C18_HoldsWithoutOverlap ==
  (Len(pending) = 0 /\ ~overlapped) => (tooltip.visible <=> lastPoint = "hover")

====
